---- MODULE Spec2Model ----
(***************************************************************************)
(* Acad Service (src/acad-service/main.py): the request path of the three  *)
(* routes, the token verifier, the scoped storage connection and the IPS   *)
(* aggregate.  Python values are tagged records, Python strings are        *)
(* sequences of one-character strings, the bobot weights are integers in   *)
(* tenths and the rounded IPS is an integer in hundredths.                 *)
(***************************************************************************)
EXTENDS Integers, Sequences, FiniteSets, Bags, TLC

\* Largest number of rows of the krs table.
MaxKrs == 2

----------------------------------------------------------------------------
\* Python values.

PyNone == [t |-> "None"]
\* A key that a dict does not carry.
Missing == [t |-> "missing"]
PyBool(b) == [t |-> "bool", b |-> b]
PyStr(s) == [t |-> "str", s |-> s]
PyDict(d) == [t |-> "dict", d |-> d]

\* dict.get(key): None when the key is not there.
DictGet(dict, key) ==
    IF dict.d[key] = Missing THEN PyNone ELSE dict.d[key]

\* Python's truth value of an object, as `not x` and `if x` take it.
Truthy(v) ==
    CASE v.t = "None" -> FALSE
      [] v.t = "bool" -> v.b
      [] v.t = "str"  -> Len(v.s) > 0
      [] v.t = "dict" -> \E k \in DOMAIN v.d : v.d[k] # Missing

\* str.startswith(prefix)
StartsWith(s, prefix) ==
    /\ Len(s) >= Len(prefix)
    /\ SubSeq(s, 1, Len(prefix)) = prefix

\* The index of the first " " of s, 0 when there is none.
RECURSIVE FirstSpaceFrom(_, _)
FirstSpaceFrom(s, i) ==
    IF i > Len(s) THEN 0
    ELSE IF s[i] = " " THEN i
    ELSE FirstSpaceFrom(s, i + 1)

\* s.split(" ", 1)[1]: what follows the first space.
SplitAfterFirstSpace(s) ==
    SubSeq(s, FirstSpaceFrom(s, 1) + 1, Len(s))

BearerPrefix == <<"B", "e", "a", "r", "e", "r", " ">>

----------------------------------------------------------------------------
\* The relational store.  The service only reads it.

Nims == {"A001", "B002"}
Nama == [n \in Nims |-> IF n = "A001" THEN "Ani" ELSE "Budi"]
Semesters == {1, 2}
Kodes == {"MK0", "MK1", "MK2", "MK3"}
\* mata_kuliah(kode_mk, sks)
MataKuliah ==
    [k \in Kodes |-> CASE k = "MK0" -> 0 [] k = "MK1" -> 3 [] k = "MK2" -> 2 [] k = "MK3" -> 1]
Grades == {"A", "B"}
\* bobot_nilai(nilai, bobot), the bobot in tenths: A is 4.0 and B is 3.0.
BobotNilai == [g \in Grades |-> IF g = "A" THEN 40 ELSE 30]

\* krs(nim, semester, kode_mk, nilai)
KrsRows == [nim : Nims, semester : Semesters, kode_mk : Kodes, nilai : Grades]

RECURSIVE SeqToBag(_)
SeqToBag(rows) ==
    IF rows = <<>> THEN EmptyBag
    ELSE SeqToBag(Tail(rows)) (+) SetToBag({Head(rows)})

\* Every krs table of at most n rows; a table is a bag, the same row may repeat.
KrsTables(n) ==
    UNION {{SeqToBag(rows) : rows \in [1..len -> KrsRows]} : len \in 0..n}

\* The stores of at most MaxKrs enrollment records: any subset of the students
\* registered, any subset of the grades weighted.
Databases ==
    [mahasiswa : {[n \in S |-> Nama[n]] : S \in SUBSET Nims},
     mata_kuliah : {MataKuliah},
     bobot_nilai : {[g \in G |-> BobotNilai[g]] : G \in SUBSET Grades},
     krs : KrsTables(MaxKrs)]

SqlNull == [null |-> TRUE, n |-> 0]
SqlInt(n) == [null |-> FALSE, n |-> n]

\* A lookup that also finds a student in the enrollment records.
SelectMahasiswaFromKrs(db, nim) ==
    IF nim \in DOMAIN db.mahasiswa \/ \E k \in BagToSet(db.krs) : k.nim = nim
    THEN [found |-> TRUE, nim |-> nim, nama |-> Nama[nim]]
    ELSE [found |-> FALSE, nim |-> nim, nama |-> ""]

\* SELECT nim, nama FROM mahasiswa WHERE nim = %s, then fetchone().
SelectMahasiswa(db, nim) ==
    IF nim \in DOMAIN db.mahasiswa
    THEN [found |-> TRUE, nim |-> nim, nama |-> db.mahasiswa[nim]]
    ELSE [found |-> FALSE, nim |-> nim, nama |-> ""]

\* A join whose WHERE clause forgets the semester.
JoinedKrsAllSemesters(db, nim, semester) ==
    {k \in BagToSet(db.krs) :
        /\ k.nim = nim
        /\ k.kode_mk \in DOMAIN db.mata_kuliah
        /\ k.nilai \in DOMAIN db.bobot_nilai}

\* The rows of krs JOIN mata_kuliah JOIN bobot_nilai WHERE nim, semester: an
\* inner join keeps a krs row only with its course and with a weight of its grade.
JoinedKrs(db, nim, semester) ==
    {k \in BagToSet(db.krs) :
        /\ k.nim = nim
        /\ k.semester = semester
        /\ k.kode_mk \in DOMAIN db.mata_kuliah
        /\ k.nilai \in DOMAIN db.bobot_nilai}

RECURSIVE SumBobot(_, _)
SumBobot(db, rows) ==
    IF rows = {} THEN 0
    ELSE LET k == CHOOSE x \in rows : TRUE
         IN db.krs[k] * db.mata_kuliah[k.kode_mk] * db.bobot_nilai[k.nilai]
              + SumBobot(db, rows \ {k})

RECURSIVE SumSks(_, _)
SumSks(db, rows) ==
    IF rows = {} THEN 0
    ELSE LET k == CHOOSE x \in rows : TRUE
         IN db.krs[k] * db.mata_kuliah[k.kode_mk] + SumSks(db, rows \ {k})

\* SELECT SUM(mk.sks * b.bobot), SUM(mk.sks) ...: SUM over no row is NULL.
SelectTotals(db, nim, semester) ==
    LET rows == JoinedKrs(db, nim, semester)
    IN IF rows = {}
       THEN [total_bobot |-> SqlNull, total_sks |-> SqlNull]
       ELSE [total_bobot |-> SqlInt(SumBobot(db, rows)),
             total_sks |-> SqlInt(SumSks(db, rows))]

\* A check that forgets the zero sum.
NoKrsDataNullOnly(total_sks) == total_sks.null

\* if total_sks is None or total_sks == 0
NoKrsData(total_sks) == total_sks.null \/ total_sks.n = 0

\* round(float(total_bobot) / float(total_sks), 2), in hundredths.  The quotient
\* of the bobot sum in tenths is 10 * total_bobot / total_sks hundredths.  Off a
\* tie the double is far closer to the quotient than the quotient is to a tie, so
\* round() gives the nearest hundredth.  On a tie x.xx5 round() decides by the
\* double itself: a tie that a double holds exactly (25 divides its count of
\* two-hundredths) goes to the even hundredth, any other tie goes to the side
\* the nearest double lies on, either of the two neighbours.
RoundIps(total_bobot, total_sks) ==
    LET num == 10 * total_bobot
        lo == num \div total_sks
        rem == num % total_sks
    IN IF 2 * rem < total_sks THEN {lo}
       ELSE IF 2 * rem > total_sks THEN {lo + 1}
       ELSE IF (2 * lo + 1) % 25 = 0
            THEN {IF lo % 2 = 0 THEN lo ELSE lo + 1}
            ELSE {lo, lo + 1}

----------------------------------------------------------------------------
\* Exceptions and responses.

NoExc == [cls |-> "none", status |-> 0, detail |-> <<>>]
\* HTTPException(status_code, detail)
HTTPException(status, detail) ==
    [cls |-> "HTTPException", status |-> status, detail |-> detail]
\* Any other exception; detail holds str(e).
Error(msg) == [cls |-> "Exception", status |-> 0, detail |-> <<msg>>]

NoBody == [kind |-> "none"]
NoResponse == [status |-> 0, detail |-> <<>>, body |-> NoBody]
\* What the framework sends for a returned value and for a raised HTTPException.
Returned(body) == [status |-> 200, detail |-> <<>>, body |-> body]
Failed(e) == [status |-> e.status, detail |-> e.detail, body |-> NoBody]

\* A handler without its `except HTTPException: raise`.
IpsCatchAll(e) == HTTPException(500, e.detail)

\* get_ips, lines 173-176: an HTTPException passes, anything else becomes a 500.
IpsCatch(e) ==
    IF e.cls = "HTTPException" THEN e ELSE HTTPException(500, e.detail)

\* get_mahasiswas, lines 108-109: every exception becomes a 500.
ListCatch(e) == HTTPException(500, e.detail)

\* A verifier that takes every exception for an invalid token.
VerifyCatchUnauthorized(e) ==
    IF e.cls = "HTTPException" THEN e
    ELSE HTTPException(401, <<"Token tidak valid">>)

\* verify_token_or_raise, lines 82-85.
VerifyCatch(e) ==
    IF e.cls = "HTTPException" THEN e
    ELSE HTTPException(500, <<"Gagal verifikasi token: ">> \o e.detail)

----------------------------------------------------------------------------
\* The clients' requests and the answers of the auth service.

Reqs == {"r1", "r2"}

Chars(x) == PyStr(<<x>>)
\* Authorization header values: none, "", "Bearer", "bearer x", "Bearer " and
\* "Bearer x".
Authorizations ==
    {PyNone,
     PyStr(<<>>),
     PyStr(<<"B", "e", "a", "r", "e", "r">>),
     PyStr(<<"b", "e", "a", "r", "e", "r", " ", "x">>),
     PyStr(BearerPrefix),
     PyStr(BearerPrefix \o <<"x">>)}

\* A request to the ips route, and the requests to the two other routes, which
\* read neither the header nor a parameter.
Ips(authorization, nim, semester) ==
    [route |-> "ips", authorization |-> authorization, nim |-> nim,
     semester |-> semester]
Plain(route) ==
    [route |-> route, authorization |-> PyNone, nim |-> "", semester |-> 0]

\* Every request of the bounds.
Requests ==
    {Plain("health"), Plain("list")}
    \cup {Ips(a, n, s) : a \in Authorizations, n \in Nims, s \in Semesters}

\* The requests of a client that holds a valid token and asks for one student
\* and semester; the stores range over both students and both semesters.
LedgerRequests ==
    {Plain("health"), Plain("list"), Ips(PyStr(BearerPrefix \o <<"x">>), "A001", 1)}

\* The JSON object {"valid": valid, "user": user}, either key possibly missing.
Payload(valid, user) == PyDict([valid |-> valid, user |-> user])
\* The JSON objects {"username": name} and {"id": "7"}; {} is Identity(Missing).
Identity(name) == PyDict([username |-> name, id |-> Missing])
Account == PyDict([username |-> Missing, id |-> Chars("7")])

\* The "user" of a payload: missing, null, {}, an object without username, one
\* with a null username, two users, and a string in place of the object.
Users ==
    {Missing, PyNone, Identity(Missing), Account, Identity(PyNone),
     Identity(Chars("x")), Identity(Chars("y")), Chars("x")}

\* An answer of the verification endpoint: no answer at all (connection error,
\* timeout), or a status with a body that is JSON or not.
Transport == [kind |-> "transport", status |-> 0, json |-> Missing]
Http(status, json) == [kind |-> "http", status |-> status, json |-> json]

AuthReplies ==
    {Transport, Http(401, Missing), Http(200, Missing), Http(200, Chars("x"))}
    \cup {Http(200, Payload(v, Identity(Chars("x")))) :
            v \in {Missing, PyBool(FALSE), PyNone}}
    \cup {Http(200, Payload(PyBool(TRUE), u)) : u \in Users}
    \cup {Http(200, Payload(Chars("y"), Identity(Chars("x"))))}

\* The answer of an auth service that is up, to the token of the user it knows.
HealthyReplies ==
    {Http(200, Payload(PyBool(TRUE), Identity(Chars("x"))))}

\* A verifier that tests the presence of the valid key, not its value.
VerifyReplyKeyPresent(reply) ==
    IF reply.kind = "transport"
    THEN [exc |-> Error("ConnectionError"), user |-> PyNone]
    ELSE IF reply.status # 200
    THEN [exc |-> HTTPException(401, <<"Token tidak valid">>), user |-> PyNone]
    ELSE IF reply.json = Missing
    THEN [exc |-> Error("JSONDecodeError"), user |-> PyNone]
    ELSE IF reply.json.t # "dict"
    THEN [exc |-> Error("AttributeError"), user |-> PyNone]
    ELSE IF reply.json.d.valid = Missing
    THEN [exc |-> HTTPException(401, <<"Token tidak valid">>), user |-> PyNone]
    ELSE [exc |-> NoExc, user |-> DictGet(reply.json, "user")]

\* A verifier that swallows a failed call and returns no identity.
VerifyReplySwallowsTransport(reply) ==
    IF reply.kind = "transport"
    THEN [exc |-> NoExc, user |-> PyNone]
    ELSE IF reply.status # 200
    THEN [exc |-> HTTPException(401, <<"Token tidak valid">>), user |-> PyNone]
    ELSE IF reply.json = Missing
    THEN [exc |-> Error("JSONDecodeError"), user |-> PyNone]
    ELSE IF reply.json.t # "dict"
    THEN [exc |-> Error("AttributeError"), user |-> PyNone]
    ELSE IF ~Truthy(DictGet(reply.json, "valid"))
    THEN [exc |-> HTTPException(401, <<"Token tidak valid">>), user |-> PyNone]
    ELSE [exc |-> NoExc, user |-> DictGet(reply.json, "user")]

\* Lines 74-81: what verify_token_or_raise makes of an answer, inside its try.
VerifyReply(reply) ==
    IF reply.kind = "transport"
    THEN [exc |-> Error("ConnectionError"), user |-> PyNone]
    ELSE IF reply.status # 200
    THEN [exc |-> HTTPException(401, <<"Token tidak valid">>), user |-> PyNone]
    ELSE IF reply.json = Missing
    THEN [exc |-> Error("JSONDecodeError"), user |-> PyNone]
    ELSE IF reply.json.t # "dict"
    THEN [exc |-> Error("AttributeError"), user |-> PyNone]
    ELSE IF ~Truthy(DictGet(reply.json, "valid"))
    THEN [exc |-> HTTPException(401, <<"Token tidak valid">>), user |-> PyNone]
    ELSE [exc |-> NoExc, user |-> DictGet(reply.json, "user")]

\* A body that reports the identity itself, not its username.
RequestedByIdentity(user) ==
    IF ~Truthy(user) THEN [exc |-> NoExc, value |-> PyNone]
    ELSE IF user.t # "dict" THEN [exc |-> Error("AttributeError"), value |-> PyNone]
    ELSE [exc |-> NoExc, value |-> user]

\* Line 170: user.get("username") if user else None.
RequestedBy(user) ==
    IF ~Truthy(user) THEN [exc |-> NoExc, value |-> PyNone]
    ELSE IF user.t # "dict" THEN [exc |-> Error("AttributeError"), value |-> PyNone]
    ELSE [exc |-> NoExc, value |-> DictGet(user, "username")]

----------------------------------------------------------------------------
\* State.

VARIABLES
    db,     \* the store: mahasiswa, mata_kuliah, bobot_nilai, krs
    env,    \* who calls and what the collaborators may do
    req     \* per request: its inputs, the handler's position and locals

vars == <<db, env, req>>

NoReply == [kind |-> "none", status |-> 0, json |-> Missing]
NoRow == [found |-> FALSE, nim |-> "", nama |-> ""]
NoTotals == [total_bobot |-> SqlNull, total_sks |-> SqlNull]

Idle ==
    [pc |-> "idle", route |-> "health", authorization |-> PyNone,
     nim |-> "", semester |-> 0,
     posts |-> 0, sent |-> PyNone, reply |-> NoReply, user |-> PyNone,
     opened |-> 0, commits |-> 0, committed |-> 0, rollbacks |-> 0, closes |-> 0,
     selects |-> 0, mhs |-> NoRow, totals |-> NoTotals, divisor |-> SqlNull,
     ret |-> NoBody, exc |-> NoExc, verified |-> FALSE, raised |-> NoExc,
     late |-> NoExc, resp |-> NoResponse]

\* Whether a call to the store may fail.
Outcomes == IF env.faults THEN BOOLEAN ELSE {TRUE}

\* Two sample stores: one course of 3 credits graded A in semester 1 for A001,
\* the only student; and A001 with 3 credits of A and 2 credits of B in semester
\* 1, B002 with 2 credits of B and 1 credit of A in semester 2.
SampleDatabases ==
    {[mahasiswa |-> [n \in {"A001"} |-> Nama[n]],
      mata_kuliah |-> MataKuliah,
      bobot_nilai |-> BobotNilai,
      krs |-> SeqToBag(<<
          [nim |-> "A001", semester |-> 1, kode_mk |-> "MK1", nilai |-> "A"],
          [nim |-> "B002", semester |-> 1, kode_mk |-> "MK2", nilai |-> "A"]>>)],
     [mahasiswa |-> Nama,
      mata_kuliah |-> MataKuliah,
      bobot_nilai |-> BobotNilai,
      krs |-> SeqToBag(<<
          [nim |-> "A001", semester |-> 1, kode_mk |-> "MK1", nilai |-> "A"],
          [nim |-> "A001", semester |-> 1, kode_mk |-> "MK2", nilai |-> "B"],
          [nim |-> "B002", semester |-> 2, kode_mk |-> "MK2", nilai |-> "B"],
          [nim |-> "B002", semester |-> 2, kode_mk |-> "MK3", nilai |-> "A"]>>)]}

\* The auth service answers every call with a success status and a JSON object.
AnsweringReplies ==
    {Http(200, Payload(PyBool(FALSE), Missing))}
    \cup {Http(200, Payload(PyBool(TRUE), u)) : u \in Users}

\* One client; an auth service that may answer anything or not at all; a store
\* whose calls may fail.
Init ==
    /\ db \in SampleDatabases
    /\ env = [clients |-> {"r1"}, requests |-> Requests,
              replies |-> AuthReplies, faults |-> TRUE]
    /\ req = [r \in Reqs |-> Idle]

\* One client that holds a valid token, collaborators that work, any store
\* within the bounds.
InitLedger ==
    /\ db \in Databases
    /\ env = [clients |-> {"r1"}, requests |-> LedgerRequests,
              replies |-> HealthyReplies, faults |-> FALSE]
    /\ req = [r \in Reqs |-> Idle]

\* Concurrent clients, collaborators that answer.
InitConcurrent ==
    /\ db \in SampleDatabases
    /\ env = [clients |-> Reqs, requests |-> Requests,
              replies |-> AnsweringReplies, faults |-> FALSE]
    /\ req = [r \in Reqs |-> Idle]

----------------------------------------------------------------------------
\* The handlers, step by step.

\* A client sends a request; the semester is validated ge=1 by the framework.
Request(r) ==
    /\ req[r].pc = "idle"
    /\ r \in env.clients
    /\ \E q \in env.requests :
        req' = [req EXCEPT ![r] =
            [@ EXCEPT !.pc = CASE q.route = "ips" -> "verify"
                             [] q.route = "list" -> "connect"
                             [] q.route = "health" -> "health",
                      !.route = q.route, !.authorization = q.authorization,
                      !.nim = q.nim, !.semester = q.semester]]
    /\ UNCHANGED <<db, env>>

\* health_check, lines 88-93 (the timestamp is left out).
HealthCheck(r) ==
    /\ req[r].pc = "health"
    /\ req' = [req EXCEPT ![r].pc = "done",
                          ![r].resp = Returned([kind |-> "health",
                                                status |-> "Acad Service is running"])]
    /\ UNCHANGED <<db, env>>

\* A check of the presence of the header only.
NoTokenAbsentOnly(authorization) == ~Truthy(authorization)

\* Line 63: not authorization or not authorization.startswith("Bearer ")
NoToken(authorization) ==
    \/ ~Truthy(authorization)
    \/ ~StartsWith(authorization.s, BearerPrefix)

\* verify_token_or_raise, lines 63-73: the header check, then the request to the
\* verification endpoint is sent.  The call is made outside the handler's try.
CheckAuthorization(r) ==
    /\ req[r].pc = "verify"
    /\ req' = [req EXCEPT ![r] =
        IF NoToken(@.authorization)
        THEN [@ EXCEPT !.pc = "done",
                       !.raised = HTTPException(401, <<"Token tidak diberikan">>),
                       !.resp = Failed(HTTPException(401, <<"Token tidak diberikan">>))]
        ELSE [@ EXCEPT !.pc = "post",
                       !.posts = @ + 1,
                       !.sent = PyStr(BearerPrefix
                                        \o SplitAfterFirstSpace(req[r].authorization.s))]]
    /\ UNCHANGED <<db, env>>

\* verify_token_or_raise, lines 74-85: the endpoint answers, or the call fails.
AuthAnswer(r) ==
    /\ req[r].pc = "post"
    /\ \E reply \in env.replies :
        LET v == VerifyReply(reply)
        IN req' = [req EXCEPT ![r] =
            IF v.exc = NoExc
            THEN [@ EXCEPT !.pc = "connect", !.reply = reply, !.user = v.user,
                           !.verified = TRUE]
            ELSE [@ EXCEPT !.pc = "done", !.reply = reply, !.raised = v.exc,
                           !.resp = Failed(VerifyCatch(v.exc))]]
    /\ UNCHANGED <<db, env>>

\* The except clauses of the route's handler.
Catch(route, e) == IF route = "ips" THEN IpsCatch(e) ELSE ListCatch(e)

\* get_db_connection, line 38: psycopg2.connect, inside the handler's try.
Connect(r) ==
    /\ req[r].pc = "connect"
    /\ \E ok \in Outcomes :
        req' = [req EXCEPT ![r] =
            IF ok
            THEN [@ EXCEPT !.pc = IF req[r].route = "list" THEN "select_all"
                                 ELSE "select_mhs",
                           !.opened = @ + 1]
            ELSE [@ EXCEPT !.pc = "done", !.raised = Error("OperationalError"),
                           !.resp = Failed(Catch(req[r].route, Error("OperationalError")))]]
    /\ UNCHANGED <<db, env>>

\* get_mahasiswas, lines 100-107 (jurusan and angkatan are left out).
SelectAll(r) ==
    /\ req[r].pc = "select_all"
    /\ \E ok \in Outcomes :
        req' = [req EXCEPT ![r] =
            IF ok
            THEN [@ EXCEPT !.pc = "exit", !.selects = @ + 1,
                           !.ret = [kind |-> "list",
                                    rows |-> {[nim |-> n, nama |-> db.mahasiswa[n]] :
                                                n \in DOMAIN db.mahasiswa}]]
            ELSE [@ EXCEPT !.pc = "exit", !.exc = Error("DatabaseError"),
                           !.raised = Error("DatabaseError")]]
    /\ UNCHANGED <<db, env>>

\* get_ips, lines 131-138: the student must exist.
SelectStudent(r) ==
    /\ req[r].pc = "select_mhs"
    /\ \E ok \in Outcomes :
        LET mhs == SelectMahasiswa(db, req[r].nim)
            notFound == HTTPException(404, <<"Mahasiswa tidak ditemukan">>)
        IN req' = [req EXCEPT ![r] =
            IF ~ok
            THEN [@ EXCEPT !.pc = "exit", !.exc = Error("DatabaseError"),
                           !.raised = Error("DatabaseError")]
            ELSE IF ~mhs.found
            THEN [@ EXCEPT !.pc = "exit", !.selects = @ + 1, !.mhs = mhs,
                           !.exc = notFound, !.raised = notFound]
            ELSE [@ EXCEPT !.pc = "select_ips", !.selects = @ + 1, !.mhs = mhs]]
    /\ UNCHANGED <<db, env>>

\* Lines 162-171: the division, the rounding and the response body.  float() of
\* None and a division by zero raise.
IpsBody(q, totals, ips) ==
    LET by == RequestedBy(q.user)
    IN IF totals.total_sks.null \/ totals.total_bobot.null
       THEN [exc |-> Error("TypeError"), ret |-> NoBody]
       ELSE IF totals.total_sks.n = 0
       THEN [exc |-> Error("ZeroDivisionError"), ret |-> NoBody]
       ELSE IF by.exc # NoExc
       THEN [exc |-> by.exc, ret |-> NoBody]
       ELSE [exc |-> NoExc,
             ret |-> [kind |-> "ips", nim |-> q.nim, nama |-> q.mhs.nama,
                      semester |-> q.semester, total_sks |-> totals.total_sks.n,
                      ips |-> ips, requested_by |-> by.value]]

\* The values round(ips, 2) may take, none when the division raises.
IpsValues(totals) ==
    IF totals.total_sks.null \/ totals.total_bobot.null \/ totals.total_sks.n = 0
    THEN {0}
    ELSE RoundIps(totals.total_bobot.n, totals.total_sks.n)

\* get_ips, lines 140-171: the aggregate, the 404 without data, the result.
SelectIps(r) ==
    /\ req[r].pc = "select_ips"
    /\ \E ok \in Outcomes :
        LET totals == SelectTotals(db, req[r].nim, req[r].semester)
            noData == HTTPException(404,
                        <<"Tidak ada data KRS untuk mahasiswa dan semester tersebut">>)
        IN \E ips \in IpsValues(totals) :
            LET body == IpsBody(req[r], totals, ips)
            IN req' = [req EXCEPT ![r] =
                IF ~ok
                THEN [@ EXCEPT !.pc = "exit", !.exc = Error("DatabaseError"),
                               !.raised = Error("DatabaseError")]
                ELSE IF NoKrsData(totals.total_sks)
                THEN [@ EXCEPT !.pc = "exit", !.selects = @ + 1, !.totals = totals,
                               !.exc = noData, !.raised = noData]
                ELSE [@ EXCEPT !.pc = "exit", !.selects = @ + 1, !.totals = totals,
                               !.divisor = totals.total_sks,
                               !.exc = body.exc, !.raised = body.exc,
                               !.ret = body.ret]]
    /\ UNCHANGED <<db, env>>

\* A scope that commits in every case.
ScopeExitCommitsAnyway(q, commitOk, rollbackOk) ==
    [q EXCEPT !.commits = @ + 1, !.committed = @ + 1]

\* get_db_connection, lines 39-44: commit after a body that did not raise;
\* rollback and re-raise on any exception, one of commit included.  An exception
\* of rollback itself takes the place of the one being handled.
ScopeExit(q, commitOk, rollbackOk) ==
    IF q.exc = NoExc
    THEN IF commitOk
         THEN [q EXCEPT !.commits = @ + 1, !.committed = @ + 1]
         ELSE [q EXCEPT !.commits = @ + 1, !.rollbacks = @ + 1,
                        !.late = IF rollbackOk THEN Error("OperationalError")
                                 ELSE Error("InterfaceError"),
                        !.exc = IF rollbackOk THEN Error("OperationalError")
                                ELSE Error("InterfaceError")]
    ELSE [q EXCEPT !.rollbacks = @ + 1,
                   !.late = IF rollbackOk THEN @ ELSE Error("InterfaceError"),
                   !.exc = IF rollbackOk THEN @ ELSE Error("InterfaceError")]

ExitScope(r) ==
    /\ req[r].pc = "exit"
    /\ \E commitOk \in Outcomes, rollbackOk \in Outcomes :
        req' = [req EXCEPT ![r] = [ScopeExit(@, commitOk, rollbackOk) EXCEPT !.pc = "close"]]
    /\ UNCHANGED <<db, env>>

\* get_db_connection, lines 45-46: finally conn.close().
Close(r) ==
    /\ req[r].pc = "close"
    /\ req' = [req EXCEPT ![r].pc = "respond", ![r].closes = @ + 1]
    /\ UNCHANGED <<db, env>>

\* The handler returns its value or its except clauses map the exception.
Respond(r) ==
    /\ req[r].pc = "respond"
    /\ req' = [req EXCEPT ![r] =
        [@ EXCEPT !.pc = "done",
                  !.resp = IF req[r].exc = NoExc THEN Returned(req[r].ret)
                           ELSE Failed(Catch(req[r].route, req[r].exc))]]
    /\ UNCHANGED <<db, env>>

Next ==
    \E r \in Reqs :
        \/ Request(r)
        \/ HealthCheck(r)
        \/ CheckAuthorization(r)
        \/ AuthAnswer(r)
        \/ Connect(r)
        \/ SelectAll(r)
        \/ SelectStudent(r)
        \/ SelectIps(r)
        \/ ExitScope(r)
        \/ Close(r)
        \/ Respond(r)

Spec == Init /\ [][Next]_vars

SpecLedger == InitLedger /\ [][Next]_vars

SpecConcurrent == InitConcurrent /\ [][Next]_vars

----------------------------------------------------------------------------
\* Properties.

\* The request holds a storage connection, or has held one.
Acquired(r) == req[r].opened > 0
\* The request is past the connection scope.
PastScope(r) == req[r].pc \in {"close", "respond", "done"}
Answered(r) == req[r].resp.status # 0

\* C1: a request that acquires a storage connection closes it exactly once, and
\* before its response is produced, on every exit path; commit is called only
\* after a body that did not raise; every failing path, a failing commit
\* included, rolls back and commits nothing; a request that never acquired a
\* connection neither commits, rolls back nor closes.
ConnectionScopeReleased ==
    \A r \in Reqs :
        LET q == req[r]
        IN /\ q.opened <= 1 /\ q.closes <= q.opened
           /\ q.commits <= q.opened /\ q.rollbacks <= q.opened
           /\ (Acquired(r) /\ q.pc \in {"respond", "done"}) => q.closes = 1
           /\ (Acquired(r) /\ Answered(r)) => q.closes = 1
           /\ (Acquired(r) /\ ~PastScope(r)) =>
                 q.closes = 0 /\ q.commits = 0 /\ q.rollbacks = 0
           /\ q.commits > 0 => q.raised = NoExc
           /\ (Acquired(r) /\ PastScope(r) /\ q.raised # NoExc) =>
                 q.rollbacks = 1 /\ q.commits = 0
           /\ (Acquired(r) /\ PastScope(r) /\ q.exc # NoExc) =>
                 q.rollbacks = 1 /\ q.committed = 0
           /\ (Acquired(r) /\ PastScope(r) /\ q.exc = NoExc) =>
                 q.committed = 1 /\ q.rollbacks = 0
           /\ (Acquired(r) /\ Answered(r) /\ q.resp.status # 200) =>
                 q.rollbacks = 1 /\ q.committed = 0

\* A 404 raised inside the scope has been answered: rolled back, closed once.
ConnectionScopeReleasedWitness ==
    \E r \in Reqs :
        /\ req[r].pc = "done" /\ req[r].resp.status = 404
        /\ req[r].opened = 1 /\ req[r].rollbacks = 1 /\ req[r].closes = 1

\* The header value has the form "Bearer <token>": a string that begins with the
\* seven characters of "Bearer ", whatever follows, nothing included.
BearerForm(a) ==
    /\ a.t = "str"
    /\ Len(a.s) >= 7
    /\ \A i \in 1..7 : a.s[i] = BearerPrefix[i]

\* C2: a semester-average request whose Authorization header is absent or not of
\* the form "Bearer <token>" is answered 401 "Token tidak diberikan" as soon as
\* the header is checked, and no request is ever sent to the verification
\* endpoint for it.
NoTokenNoNetworkCall ==
    \A r \in Reqs :
        (req[r].route = "ips" /\ ~BearerForm(req[r].authorization)) =>
            /\ req[r].posts = 0
            /\ req[r].reply = NoReply
            /\ req[r].pc \in {"verify", "done"}
            /\ req[r].pc = "done" =>
                 /\ req[r].resp.status = 401
                 /\ req[r].resp.detail = <<"Token tidak diberikan">>

\* The header "Bearer", without the space, has been refused.
NoTokenNoNetworkCallWitness ==
    \E r \in Reqs :
        /\ req[r].pc = "done" /\ req[r].route = "ips"
        /\ req[r].authorization = PyStr(<<"B", "e", "a", "r", "e", "r">>)
        /\ req[r].resp.status = 401 /\ req[r].posts = 0

\* The endpoint answered and its answer does not assert validity.
AnsweredNotValid(reply) ==
    /\ reply.kind = "http"
    /\ \/ reply.status # 200
       \/ /\ reply.json # Missing
          /\ reply.json.t = "dict"
          /\ ~Truthy(DictGet(reply.json, "valid"))

\* C3: a verification call that fails in transport is answered 500, never 401;
\* a 401 is answered only for a missing or malformed header, or after the
\* endpoint answered without asserting validity.
TransportFaultIsInternal ==
    \A r \in Reqs :
        /\ req[r].reply.kind = "transport" =>
              /\ req[r].pc = "done"
              /\ req[r].resp.status = 500
              /\ Head(req[r].resp.detail) = "Gagal verifikasi token: "
        /\ req[r].resp.status = 401 =>
              \/ req[r].posts = 0 /\ ~BearerForm(req[r].authorization)
              \/ req[r].posts = 1 /\ AnsweredNotValid(req[r].reply)

TransportFaultIsInternalWitness ==
    \E r \in Reqs :
        /\ req[r].pc = "done" /\ req[r].reply = Transport
        /\ req[r].posts = 1 /\ req[r].resp.status = 500

\* The endpoint answered 200 with a JSON object whose valid flag is false or absent.
ValidFalseOrAbsent(reply) ==
    /\ reply.kind = "http" /\ reply.status = 200
    /\ reply.json # Missing
    /\ reply.json.t = "dict"
    /\ reply.json.d.valid \in {Missing, PyBool(FALSE)}

\* C4: a 200 answer whose payload has valid false or absent is answered 401
\* "Token tidak valid", whatever else the payload holds; verify returns an
\* identity only for an answer that is not of that kind.
InvalidPayloadIsUnauthorized ==
    \A r \in Reqs :
        /\ ValidFalseOrAbsent(req[r].reply) =>
              /\ req[r].pc = "done"
              /\ ~req[r].verified
              /\ req[r].resp.status = 401
              /\ req[r].resp.detail = <<"Token tidak valid">>
        /\ req[r].verified =>
              /\ req[r].reply.kind = "http" /\ req[r].reply.status = 200
              /\ ~ValidFalseOrAbsent(req[r].reply)
              /\ req[r].user = DictGet(req[r].reply.json, "user")

InvalidPayloadIsUnauthorizedWitness ==
    \E r \in Reqs :
        /\ req[r].pc = "done"
        /\ req[r].reply = Http(200, Payload(PyBool(FALSE), Identity(Chars("x"))))
        /\ req[r].resp.status = 401

\* The verification of the request cannot have succeeded: no well-formed header,
\* no answer, or an answer that is not a 200 asserting validity.
VerificationFails(q) ==
    \/ ~BearerForm(q.authorization)
    \/ q.reply.kind = "transport"
    \/ AnsweredNotValid(q.reply)
    \/ q.reply.kind = "http" /\ q.reply.status = 200 /\ q.reply.json = Missing

\* C5: on the semester-average route the store is reached only after verify
\* returned: a request opens a connection or runs a query only once verified,
\* and a request whose verification fails is answered 401 or 500, never 404 nor
\* an average, whatever its student and the store are.
VerifyBeforeLedger ==
    \A r \in Reqs :
        req[r].route = "ips" =>
            /\ (req[r].opened > 0 \/ req[r].selects > 0
                  \/ req[r].pc \in {"connect", "select_mhs", "select_ips", "exit",
                                    "close", "respond"}) =>
                 /\ req[r].verified
                 /\ req[r].posts = 1
                 /\ ~VerificationFails(req[r])
            /\ (VerificationFails(req[r]) /\ req[r].pc # "verify") =>
                 /\ req[r].opened = 0 /\ req[r].selects = 0
                 /\ req[r].pc \in {"post", "done"}
                 /\ req[r].pc = "done" =>
                      /\ req[r].resp.status \in {401, 500}
                      /\ req[r].resp.body = NoBody

\* A request for a student the store does not hold, refused on its token.
VerifyBeforeLedgerWitness ==
    \E r \in Reqs :
        /\ req[r].pc = "done" /\ req[r].route = "ips"
        /\ req[r].nim \notin DOMAIN db.mahasiswa
        /\ req[r].reply = Http(401, Missing)
        /\ req[r].resp.status = 401

Weighted(nim, semester) ==
    {k \in KrsRows :
        k.nim = nim /\ k.semester = semester /\ k.nilai \in DOMAIN db.bobot_nilai}

\* The sum of value[k] over the copies of the rows of S in the krs table.
RECURSIVE Total(_, _)
Total(S, value) ==
    IF S = {} THEN 0
    ELSE LET k == CHOOSE x \in S : TRUE
         IN CopiesIn(k, db.krs) * value[k] + Total(S \ {k}, value)

\* total_credits and total_weighted (in tenths) of a student and semester.
Credits(nim, semester) ==
    Total(Weighted(nim, semester), [k \in KrsRows |-> MataKuliah[k.kode_mk]])
Points(nim, semester) ==
    Total(Weighted(nim, semester),
          [k \in Weighted(nim, semester) |->
              MataKuliah[k.kode_mk] * db.bobot_nilai[k.nilai]])

\* h hundredths is a hundredth nearest to points tenths over credits.
NearestHundredth(h, points, credits) ==
    /\ 2 * (10 * points - h * credits) <= credits
    /\ 2 * (h * credits - 10 * points) <= credits

\* C6: a semester average that is answered carries total_sks, the sum of the
\* credits, and ips, the sum of credit times grade value over that sum rounded to
\* 2 decimals, both summed over exactly the enrollment records of the student
\* and semester whose grade has a weight (a record with an unweighted grade is
\* left out and is no error); 3 credits of 4.0 with 2 credits of 3.0 give 18
\* over 5 and 3.60.
AverageOverWeightedRecords ==
    \A r \in Reqs :
        LET q == req[r]
            credits == Credits(q.nim, q.semester)
            points == Points(q.nim, q.semester)
        IN /\ (q.route = "ips" /\ q.selects = 2) =>
                 IF \E k \in Weighted(q.nim, q.semester) : CopiesIn(k, db.krs) > 0
                 THEN q.totals = [total_bobot |-> SqlInt(points),
                                  total_sks |-> SqlInt(credits)]
                 ELSE q.totals = NoTotals
           /\ (q.route = "ips" /\ q.pc = "done" /\ q.verified
                 /\ q.nim \in DOMAIN db.mahasiswa /\ credits > 0) =>
                 /\ q.resp.status = 200
                 /\ q.resp.body.total_sks = credits
                 /\ NearestHundredth(q.resp.body.ips, points, credits)
                 /\ (points = 180 /\ credits = 5) => q.resp.body.ips = 360

\* An average was answered although one record of that semester has a grade
\* without weight, and the quotient had to be rounded.
AverageOverWeightedRecordsWitness ==
    \E r \in Reqs :
        /\ req[r].pc = "done" /\ req[r].resp.status = 200 /\ req[r].route = "ips"
        /\ \E k \in BagToSet(db.krs) :
              /\ k.nim = req[r].nim /\ k.semester = req[r].semester
              /\ k.nilai \notin DOMAIN db.bobot_nilai
        /\ req[r].resp.body.total_sks = 3

\* An average was answered for a quotient that is no whole number of hundredths.
AverageRounded ==
    \E r \in Reqs :
        /\ req[r].pc = "done" /\ req[r].resp.status = 200 /\ req[r].route = "ips"
        /\ (10 * Points(req[r].nim, req[r].semester))
              % Credits(req[r].nim, req[r].semester) # 0

\* C7: for a student of the store, a semester without enrollment rows, or with
\* none whose grade has a weight, or whose credits sum to zero, is answered 404
\* "Tidak ada data KRS ...", whatever the other semesters and the other students
\* hold; the division is never evaluated with a zero or undefined divisor.
NoEnrollmentIsNotFound ==
    \A r \in Reqs :
        LET q == req[r]
        IN /\ (q.route = "ips" /\ q.pc = "done" /\ q.verified
                 /\ q.nim \in DOMAIN db.mahasiswa
                 /\ \/ ~\E k \in BagToSet(db.krs) :
                          k.nim = q.nim /\ k.semester = q.semester
                    \/ Credits(q.nim, q.semester) = 0) =>
                 /\ q.resp.status = 404
                 /\ q.resp.detail =
                      <<"Tidak ada data KRS untuk mahasiswa dan semester tersebut">>
                 /\ q.divisor = SqlNull
           /\ q.divisor # SqlNull => ~q.divisor.null /\ q.divisor.n > 0

\* The 404 was answered while the student has a record in the other semester
\* and the other student has one in this semester.
NoEnrollmentIsNotFoundWitness ==
    \E r \in Reqs :
        /\ req[r].pc = "done" /\ req[r].resp.status = 404 /\ req[r].selects = 2
        /\ \E k \in BagToSet(db.krs) :
              k.nim = req[r].nim /\ k.semester # req[r].semester
        /\ \E k \in BagToSet(db.krs) :
              k.nim # req[r].nim /\ k.semester = req[r].semester

\* The 404 was answered for credits that sum to zero.
ZeroCreditsNotFound ==
    \E r \in Reqs :
        /\ req[r].pc = "done" /\ req[r].resp.status = 404
        /\ req[r].totals.total_sks = SqlInt(0)

\* C8: with a valid token, a student identifier that the student table does not
\* hold is answered 404 "Mahasiswa tidak ditemukan", also when enrollment
\* records carry that identifier; the aggregate query is not executed.
UnknownStudentIsNotFound ==
    \A r \in Reqs :
        LET q == req[r]
        IN (q.route = "ips" /\ q.verified /\ q.nim \notin DOMAIN db.mahasiswa) =>
              /\ q.selects <= 1
              /\ q.totals = NoTotals
              /\ q.pc # "select_ips"
              /\ q.pc = "done" =>
                   /\ q.resp.status = 404
                   /\ q.resp.detail = <<"Mahasiswa tidak ditemukan">>

\* The 404 was answered although a weighted enrollment record of that semester
\* carries the identifier.
UnknownStudentIsNotFoundWitness ==
    \E r \in Reqs :
        /\ req[r].pc = "done" /\ req[r].resp.status = 404 /\ req[r].selects = 1
        /\ req[r].nim \notin DOMAIN db.mahasiswa
        /\ Credits(req[r].nim, req[r].semester) > 0

\* The username the answer of the verification endpoint carries, None without.
UsernameOf(reply) ==
    LET user == reply.json.d.user
    IN IF user \in {Missing, PyNone} THEN PyNone
       ELSE IF user.d.username = Missing THEN PyNone
       ELSE user.d.username

\* C10: under any interleaving of concurrent requests, an answered semester
\* average carries the student, semester and totals of its own request, and as
\* requested_by the username that the verification endpoint returned to that
\* request, null exactly when that identity is absent or carries no username.
ResponseOfOwnRequest ==
    \A r \in Reqs :
        LET q == req[r]
        IN (q.route = "ips" /\ q.resp.status = 200) =>
              /\ q.resp.body.requested_by = UsernameOf(q.reply)
              /\ (q.resp.body.requested_by = PyNone) =
                   \/ q.reply.json.d.user \in {Missing, PyNone}
                   \/ q.reply.json.d.user.d.username \in {Missing, PyNone}
              /\ q.resp.body.nim = q.nim
              /\ q.resp.body.nama = Nama[q.nim]
              /\ q.resp.body.semester = q.semester
              /\ q.resp.body.total_sks = Credits(q.nim, q.semester)
              /\ NearestHundredth(q.resp.body.ips, Points(q.nim, q.semester),
                                  Credits(q.nim, q.semester))

\* Two averages were answered, of two students, for two identities.
ResponseOfOwnRequestWitness ==
    /\ \A r \in Reqs : req[r].pc = "done" /\ req[r].resp.status = 200
    /\ req["r1"].route = "ips" /\ req["r2"].route = "ips"
    /\ req["r1"].nim # req["r2"].nim
    /\ req["r1"].resp.body.requested_by = Chars("x")
    /\ req["r2"].resp.body.requested_by = PyNone
    /\ req["r1"].resp.body.total_sks # req["r2"].resp.body.total_sks

====
